---- MODULE Spec2Model ----
(***************************************************************************)
(* Model of opentaps_seas/core/utils.py: the time-series helpers           *)
(* (get_current_value_dict, get_current_value, add_current_values,         *)
(* get_ahu_current_values, get_point_values), the tags report             *)
(* (get_topics_tags_report) and the site address lookup                    *)
(* (get_site_addr_loc).                                                    *)
(*                                                                         *)
(* Conventions                                                             *)
(*  - a Python str is a sequence of one-character strings;                 *)
(*  - an optional value (Python None / SQL NULL) is <<>> and a present     *)
(*    value v is <<v>>;                                                    *)
(*  - instants and epoch timestamps are integers counted in ticks, with    *)
(*    TicksPerSecond ticks in a second (the source counts milliseconds);   *)
(*  - a double is counted in hundredths (240 is 2.4); an aggregate is a    *)
(*    fraction [num, den] of hundredths.                                   *)
(***************************************************************************)
EXTENDS Integers, Sequences, FiniteSets, TLC

VARIABLES
    volttron, \* the rows of the time-series store's "volttron"."data" table
    conns,   \* connections opened by get_crate_connection() and not closed
    pc,      \* "idle", or "returned" once an operation ended
    op,      \* the operation that ended
    args,    \* its arguments and what the environment did during it
    exc,     \* the exception it raised, "none" when it returned
    ret,     \* the value it returned
    range_start, \* get_point_values: the resolved bounds and the
    range_end,   \* statement executed,
    statement,   \* None until they exist
    Topic_objects,  \* the rows of the Topic table, each with its related point
    session,        \* the session store handed to get_site_addr_loc
    GOOGLE_API_KEY  \* settings.GOOGLE_API_KEY

vars == <<volttron, conns, pc, op, args, exc, ret, range_start, range_end, statement,
          Topic_objects, session, GOOGLE_API_KEY>>

\* The relational database and the web settings, which the time-series
\* operations do not touch.
django == <<Topic_objects, session, GOOGLE_API_KEY>>

\* ------------------------------------------------------------------ bounds
\* Resolution of the modelled clock and of the store's timestamps.
TicksPerSecond == 2
\* How far the clock may advance between the two utcnow() reads of
\* get_point_values (lines 189 and 190), in ticks.
MaxClockStep == 1
\* Readings held by the time-series store.
MaxReadings == 2
\* Connections that may stay open before no further operation is started.
MaxLeaked == 1
\* Points the metadata store returns for one equipment query.
MaxPoints == 2
\* Points handed to one add_current_values call.
MaxData == 2

\* ------------------------------------------------------------------ time
Second == TicksPerSecond
Minute == 60 * Second
Hour == 60 * Minute
Day == 24 * Hour

\* timedelta(days=, hours=, minutes=) as a number of ticks
timedelta(days, hours, minutes) == days * Day + hours * Hour + minutes * Minute

\* ------------------------------------------------------------------ str
None == <<>>
Some(v) == <<v>>

\* trange[-n:] for n <= len(trange)
Suffix(s, n) == SubSeq(s, Len(s) - n + 1, Len(s))
\* trange[:-n] for n <= len(trange)
DropLast(s, n) == SubSeq(s, 1, Len(s) - n)

DigitSeq == <<"0", "1", "2", "3", "4", "5", "6", "7", "8", "9">>
IsDigit(c) == \E i \in 1..10 : DigitSeq[i] = c
DigitVal(c) == (CHOOSE i \in 1..10 : DigitSeq[i] = c) - 1

RECURSIVE Decimal(_)
Decimal(ds) ==
    IF ds = <<>> THEN 0
    ELSE 10 * Decimal(SubSeq(ds, 1, Len(ds) - 1)) + DigitVal(ds[Len(ds)])

RECURSIVE StripLeft(_)
StripLeft(s) ==
    IF s # <<>> /\ s[1] = " " THEN StripLeft(Tail(s)) ELSE s

RECURSIVE StripRight(_)
StripRight(s) ==
    IF s # <<>> /\ s[Len(s)] = " " THEN StripRight(SubSeq(s, 1, Len(s) - 1)) ELSE s

\* int() as a lenient parser would be: a text that is no integer gives 0
\* instead of raising.
int_lenient(s) ==
    LET t == StripRight(StripLeft(s))
        signed == t # <<>> /\ t[1] \in {"+", "-"}
        ds == IF signed THEN Tail(t) ELSE t
        wellformed == ds # <<>> /\ \A i \in 1..Len(ds) : IsDigit(ds[i])
    IN  [ok |-> TRUE,
         val |-> IF ~wellformed THEN 0
                 ELSE IF signed /\ t[1] = "-" THEN 0 - Decimal(ds) ELSE Decimal(ds)]

\* Python's int(str): surrounding blanks are ignored, one sign is allowed,
\* the rest must be a non-empty run of decimal digits; anything else raises
\* ValueError (ok = FALSE).  (Digit-group underscores and non-ASCII digits,
\* which int() also accepts, are not among the texts explored.)
int(s) ==
    LET t == StripRight(StripLeft(s))
        signed == t # <<>> /\ t[1] \in {"+", "-"}
        ds == IF signed THEN Tail(t) ELSE t
        wellformed == ds # <<>> /\ \A i \in 1..Len(ds) : IsDigit(ds[i])
    IN  IF ~wellformed THEN [ok |-> FALSE, val |-> 0]
        ELSE [ok |-> TRUE,
              val |-> IF signed /\ t[1] = "-" THEN 0 - Decimal(ds) ELSE Decimal(ds)]

\* str.split(',')
RECURSIVE split(_)
split(s) ==
    IF \A i \in 1..Len(s) : s[i] # ","
    THEN <<s>>
    ELSE LET k == CHOOSE i \in 1..Len(s) :
                     s[i] = "," /\ \A j \in 1..(i - 1) : s[j] # ","
         IN  <<SubSeq(s, 1, k - 1)>> \o split(SubSeq(s, k + 1, Len(s)))

\* ------------------------------------------------------------------ clock
\* The instant of the first clock read of a call.
Now0 == 100 * Day + 13 * Hour + 7 * Minute + 5 * Second + 1

\* dateutil.parser.parse: the date texts it accepts, with the instant each
\* denotes; every other text raises ParserError, a ValueError.
DateA == <<"D", "9", "0">>
DateB == <<"D", "9", "9">>
DateLiterals == {DateA, DateB}
DateValue(s) == IF s = DateA THEN 90 * Day ELSE 99 * Day + 12 * Hour

parse_datetime(s) ==
    IF s \in DateLiterals THEN [ok |-> TRUE, val |-> DateValue(s)]
    ELSE [ok |-> FALSE, val |-> 0]

DEFAULT_RANGE == <<"2", "4", "h">>
DEFAULT_RES == "minute"

\* The token the range rules see: `if not trange: trange = DEFAULT_RANGE`.
NoneToken == <<"None">>
DefaultRange(trange) ==
    IF trange = <<>> \/ trange = NoneToken THEN DEFAULT_RANGE ELSE trange

Raises(e) == [exc |-> e, start |-> 0, end |-> 0]
Bounds(s, e) == [exc |-> "none", start |-> s, end |-> e]

\* The range rules with the 'h' and 'm' rules tried before the month and day
\* rules.
ResolveRange_suffix_first(trange, end_now, start_now) ==
    LET n == Len(trange)
        Rel(prefix, unit) ==
            LET v == int(prefix)
            IN  IF v.ok THEN Bounds(start_now - unit * v.val, end_now)
                ELSE Raises("ValueError")
    IN  IF trange = <<"t", "o", "d", "a", "y">>
        THEN Bounds(start_now - timedelta(1, 0, 0), end_now)
        ELSE IF trange = <<"y", "e", "s", "t", "e", "r", "d", "a", "y">>
        THEN Bounds(start_now - timedelta(2, 0, 0), end_now - timedelta(1, 0, 0))
        ELSE IF n > 1 /\ Suffix(trange, 1) = <<"h">>
        THEN Rel(DropLast(trange, 1), timedelta(0, 1, 0))
        ELSE IF n > 1 /\ Suffix(trange, 1) = <<"m">>
        THEN Rel(DropLast(trange, 1), timedelta(0, 0, 1))
        ELSE IF n > 7 /\ Suffix(trange, 7) = <<" ", "m", "o", "n", "t", "h", "s">>
        THEN Rel(DropLast(trange, 7), timedelta(30, 0, 0))
        ELSE IF n > 6 /\ Suffix(trange, 6) = <<" ", "m", "o", "n", "t", "h">>
        THEN Rel(DropLast(trange, 6), timedelta(30, 0, 0))
        ELSE IF n > 5 /\ Suffix(trange, 5) = <<" ", "d", "a", "y", "s">>
        THEN Rel(DropLast(trange, 5), timedelta(1, 0, 0))
        ELSE LET dr == split(trange)
                 s == parse_datetime(dr[1])
                 e == IF Len(dr) > 1 THEN parse_datetime(dr[2])
                      ELSE [ok |-> TRUE, val |-> end_now]
             IN  IF ~s.ok \/ ~e.ok THEN Raises("ValueError")
                 ELSE Bounds(s.val, e.val)

\* Lines 189-211: end_now is the clock read of line 189, start_now that of
\* line 190.
ResolveRange(trange, end_now, start_now) ==
    LET n == Len(trange)
        Rel(prefix, unit) ==
            LET v == int(prefix)
            IN  IF v.ok THEN Bounds(start_now - unit * v.val, end_now)
                ELSE Raises("ValueError")
    IN  IF trange = <<"t", "o", "d", "a", "y">>
        THEN Bounds(start_now - timedelta(1, 0, 0), end_now)
        ELSE IF trange = <<"y", "e", "s", "t", "e", "r", "d", "a", "y">>
        THEN Bounds(start_now - timedelta(2, 0, 0), end_now - timedelta(1, 0, 0))
        ELSE IF n > 7 /\ Suffix(trange, 7) = <<" ", "m", "o", "n", "t", "h", "s">>
        THEN Rel(DropLast(trange, 7), timedelta(30, 0, 0))
        ELSE IF n > 6 /\ Suffix(trange, 6) = <<" ", "m", "o", "n", "t", "h">>
        THEN Rel(DropLast(trange, 6), timedelta(30, 0, 0))
        ELSE IF n > 5 /\ Suffix(trange, 5) = <<" ", "d", "a", "y", "s">>
        THEN Rel(DropLast(trange, 5), timedelta(1, 0, 0))
        ELSE IF n > 1 /\ Suffix(trange, 1) = <<"h">>
        THEN Rel(DropLast(trange, 1), timedelta(0, 1, 0))
        ELSE IF n > 1 /\ Suffix(trange, 1) = <<"m">>
        THEN Rel(DropLast(trange, 1), timedelta(0, 0, 1))
        ELSE LET dr == split(trange)
                 s == parse_datetime(dr[1])
                 e == IF Len(dr) > 1 THEN parse_datetime(dr[2])
                      ELSE [ok |-> TRUE, val |-> end_now]
             IN  IF ~s.ok \/ ~e.ok THEN Raises("ValueError")
                 ELSE Bounds(s.val, e.val)


\* ------------------------------------------------------------------ store
\* The "volttron"."data" table: rows [topic, ts, string_value, double_value],
\* at most one per (topic, ts).  string_value is an optional str,
\* double_value an optional number of hundredths.
CharOrder == <<".", "0", "1", "2", "3", "4", "5", "6", "7", "8", "9", "f", "t">>
CharRank(c) == CHOOSE i \in 1..Len(CharOrder) : CharOrder[i] = c

\* a < b for two str, as the store's MIN() orders them
RECURSIVE LexLess(_, _)
LexLess(a, b) ==
    IF b = <<>> THEN FALSE
    ELSE IF a = <<>> THEN TRUE
    ELSE IF a[1] # b[1] THEN CharRank(a[1]) < CharRank(b[1])
    ELSE LexLess(Tail(a), Tail(b))

tA == Now0 - 10 * Minute
tB == tA - 1
tC == Now0 - 3 * Hour
tD == Now0 - 2 * Day

Reading(topic, ts, sv, dv) ==
    [topic |-> topic, ts |-> ts, string_value |-> sv, double_value |-> dv]

ReadingPool ==
    { Reading("T1", tA, Some(<<"t">>), None),
      Reading("T1", tA, Some(<<"4", ".", "8">>), Some(480)),
      Reading("T1", tB, Some(<<"0">>), Some(0)),
      Reading("T1", tB, Some(<<>>), None),
      Reading("T1", tC, Some(<<"5">>), Some(500)),
      Reading("T1", tC, None, None),
      Reading("T1", tD, Some(<<"t">>), None),
      Reading("T2", tA, Some(<<"2", "1", ".", "5", "4">>), Some(2154)) }

Stores ==
    { S \in SUBSET ReadingPool :
        /\ Cardinality(S) <= MaxReadings
        /\ \A r1, r2 \in S : (r1.topic = r2.topic /\ r1.ts = r2.ts) => r1 = r2 }

\* DATE_TRUNC(unit, ts)
UnitTicks(unit) ==
    CASE unit = "day" -> Day
      [] unit = "hour" -> Hour
      [] unit = "minute" -> Minute
      [] unit = "second" -> Second
DATE_TRUNC(unit, ts) == ts - (ts % UnitTicks(unit))

\* ORDER BY ... DESC over distinct keys
RECURSIVE SortDesc(_)
SortDesc(S) ==
    IF S = {} THEN <<>>
    ELSE LET m == CHOOSE x \in S : \A y \in S : y <= x
         IN  <<m>> \o SortDesc(S \ {m})

RECURSIVE SumDouble(_)
SumDouble(R) ==
    IF R = {} THEN 0
    ELSE LET r == CHOOSE x \in R : TRUE
         IN  r.double_value[1] + SumDouble(R \ {r})

\* {value_func}(double_value) over the rows R of one group: NULLs are
\* skipped, a group with no value gives NULL.
Aggregate(value_func, R) ==
    LET V == {r \in R : r.double_value # None}
    IN  IF V = {} THEN None
        ELSE IF value_func = "avg"
        THEN Some([num |-> SumDouble(V), den |-> Cardinality(V)])
        ELSE LET top == CHOOSE r \in V :
                            \A q \in V : q.double_value[1] <= r.double_value[1]
             IN  Some([num |-> top.double_value[1], den |-> 1])

\* MIN(string_value) over the rows R of one group
MinString(R) ==
    LET V == {r.string_value[1] : r \in {q \in R : q.string_value # None}}
    IN  IF V = {} THEN None
        ELSE Some(CHOOSE s \in V : \A u \in V : u = s \/ LexLess(s, u))

\* WHERE topic = ? AND ts > ? AND ts <= ?
InRange(data, topic, start, end) ==
    {r \in data : r.topic = topic /\ r.ts > start /\ r.ts <= end}

\* The aggregating statement for every kind but Bool.
BuildSql_aggregate_all(is_number, is_bool, date_trunc, value_func) ==
    IF is_bool THEN <<"bool", date_trunc, value_func>>
    ELSE <<"number", date_trunc, value_func>>

\* The statement of lines 215-226, as its shape and the two values
\* formatted into it (the raw shape formats nothing).
BuildSql(is_number, is_bool, date_trunc, value_func) ==
    IF is_number THEN <<"number", date_trunc, value_func>>
    ELSE IF is_bool THEN <<"bool", date_trunc, value_func>>
    ELSE <<"raw">>

\* The rows the store returns for a statement, newest first.
Execute(sql, data, topic, start, end) ==
    LET R == InRange(data, topic, start, end)
        Group(b) == {r \in R : DATE_TRUNC(sql[2], r.ts) = b}
        groups == SortDesc({DATE_TRUNC(sql[2], r.ts) : r \in R})
        times == SortDesc({r.ts : r \in R})
        At(t) == CHOOSE r \in R : r.ts = t
    IN  IF sql[1] = "number"
        THEN [i \in 1..Len(groups) |->
                <<groups[i], Aggregate(sql[3], Group(groups[i]))>>]
        ELSE IF sql[1] = "bool"
        THEN [i \in 1..Len(groups) |->
                <<groups[i], MinString(Group(groups[i])),
                  Aggregate(sql[3], Group(groups[i]))>>]
        ELSE [i \in 1..Len(times) |-> <<times[i], At(times[i]).string_value>>]

\* ------------------------------------------------------------------ decoding
\* Python's round(x) of a float: to the nearest integer, a tie to the even one.
\* x is num/den hundredths.
round(x) ==
    LET d == 100 * x.den
        q == x.num \div d
        r == x.num % d
    IN  IF 2 * r < d THEN q
        ELSE IF 2 * r > d THEN q + 1
        ELSE IF q % 2 = 0 THEN q ELSE q + 1

\* Python truthiness of an optional str: None and '' are falsy.
Truthy(value) == value # None /\ value[1] # <<>>

\* The Bool decoding without the `value and` guard of line 236.
DecodeBool_unguarded(result) ==
    IF result[2] = Some(<<"t">>) \/ result[2] # Some(<<"0">>)
    THEN [exc |-> "none", value |-> 1]
    ELSE IF result[3] = None THEN [exc |-> "TypeError", value |-> 0]
    ELSE [exc |-> "none", value |-> round(result[3][1])]

\* Lines 235-239: the value stored for a Bool row; raises TypeError when the
\* aggregate it rounds is None.
DecodeBool(result) ==
    IF Truthy(result[2]) /\ (result[2][1] = <<"t">> \/ result[2][1] # <<"0">>)
    THEN [exc |-> "none", value |-> 1]
    ELSE IF result[3] = None THEN [exc |-> "TypeError", value |-> 0]
    ELSE [exc |-> "none", value |-> round(result[3][1])]

\* Line 242: datetime.utcfromtimestamp(ts // 1000).replace(microsecond=0)
utcfromtimestamp(ts) == [utc_second |-> ts \div TicksPerSecond]

\* Lines 233-243 for one row
DecodeRow(result, is_bool, ts_as_datetime) ==
    LET v == IF is_bool THEN DecodeBool(result)
             ELSE [exc |-> "none", value |-> result[2]]
        ts == IF ts_as_datetime THEN utcfromtimestamp(result[1]) ELSE result[1]
    IN  [exc |-> v.exc, row |-> <<ts, v.value>>]

\* The list returned as collected, newest first.
not_reversed(s) == s

\* list(reversed(data))
reversed(s) == [i \in 1..Len(s) |-> s[Len(s) + 1 - i]]


\* ------------------------------------------------------------------ points
Point(id, topic, kind, unit, equipment, tags) ==
    [entity_id |-> id, topic |-> topic, kind |-> kind, unit |-> unit,
     equipment_id |-> equipment, m_tags |-> tags]

DegF == <<"°", "F">>
pBool == Point("p-bool", "T1", "Bool", None, "E1", {})
pTemp == Point("p-temp", "T1", "Number", Some(DegF), "E1", {})
pStr == Point("p-str", "T1", "String", None, "E1", {})
pTemp2 == Point("p-temp2", "T2", "Number", Some(DegF), "E1", {})
pIdle == Point("p-idle", "T3", "Number", None, "E1", {})

\* ------------------------------------------------------------------ current value
\* Lines 46-50.  strftime keeps whole seconds, isoformat the fraction too.
format_epoch(ts) ==
    [epoch |-> ts,
     fmttime |-> <<"%m/%d/%Y %H:%M:%S", ts \div TicksPerSecond>>,
     time |-> <<"iso", ts \div TicksPerSecond, ts % TicksPerSecond>>]

\* float(str) for the texts digits[.digits] with at most two decimals, in
\* hundredths; float(None) and every other text raise.
float(sv) ==
    IF sv = None THEN [ok |-> FALSE, val |-> 0]
    ELSE LET s == sv[1]
             dots == {i \in 1..Len(s) : s[i] = "."}
             k == IF dots = {} THEN Len(s) + 1 ELSE CHOOSE i \in dots : TRUE
             whole == SubSeq(s, 1, k - 1)
             frac == SubSeq(s, k + 1, Len(s))
             digits == \A i \in 1..Len(s) : i \in dots \/ IsDigit(s[i])
         IN  IF ~digits \/ Cardinality(dots) > 1 \/ whole = <<>> \/ Len(frac) > 2
             THEN [ok |-> FALSE, val |-> 0]
             ELSE [ok |-> TRUE,
                   val |-> 100 * Decimal(whole)
                           + (IF Len(frac) = 1 THEN 10 * Decimal(frac)
                              ELSE Decimal(frac))]

RECURSIVE str(_)
str(n) ==
    IF n < 10 THEN <<DigitSeq[n + 1]>>
    ELSE str(n \div 10) \o <<DigitSeq[(n % 10) + 1]>>

\* format(v, '.1f') of a non-negative number of hundredths
format_1f(v) ==
    LET q == v \div 10
        r == v % 10
        t == IF r < 5 THEN q ELSE IF r > 5 THEN q + 1
             ELSE IF q % 2 = 0 THEN q ELSE q + 1
    IN  str(t \div 10) \o <<".">> \o str(t % 10)

\* ORDER BY ts DESC LIMIT 1 over the topic's rows; None when there is none
Latest(data, topic) ==
    LET R == {r \in data : r.topic = topic}
    IN  IF R = {} THEN None
        ELSE Some(CHOOSE r \in R : \A q \in R : q.ts <= r.ts)

\* Lines 66-87: the value returned once the row is fetched and the cursor
\* (and an own connection) closed.
CurrentValueDict(point, result) ==
    IF result = None THEN None
    ELSE LET t == format_epoch(result[1].ts)
             sv == result[1].string_value
             temp == point.kind = "Number"
                     /\ (point.unit = Some(DegF) \/ point.unit = Some(<<"°", "C">>))
             string_value == IF temp /\ float(sv).ok
                             THEN Some(format_1f(float(sv).val)) ELSE sv
         IN  IF point.kind = "Bool"
             THEN Some([value |-> (sv = Some(<<"t">>) \/ sv # Some(<<"0">>)),
                        fmttime |-> t.fmttime, time |-> t.time, epoch |-> t.epoch])
             ELSE IF Truthy(point.unit)
             THEN Some([value |-> string_value, epoch |-> t.epoch,
                        fmttime |-> t.fmttime, time |-> t.time,
                        unit |-> point.unit[1]])
             ELSE Some([value |-> string_value, epoch |-> t.epoch,
                        fmttime |-> t.fmttime, time |-> t.time])

\* value.replace('{', '').replace('}', '')
RECURSIVE StripBraces(_)
StripBraces(s) ==
    IF s = <<>> THEN <<>>
    ELSE IF s[1] \in {"{", "}"} THEN StripBraces(Tail(s))
    ELSE <<s[1]>> \o StripBraces(Tail(s))

\* Lines 92-110: get_current_value once get_current_value_dict returned d
CurrentValue(point, d, raw) ==
    IF d = None THEN None
    ELSE IF raw THEN d
    ELSE LET v == d[1].value
             value == IF point.kind # "Bool" /\ v # None
                         /\ \E i \in 1..Len(v[1]) : v[1][i] = "{"
                      THEN Some(StripBraces(v[1])) ELSE v
         IN  IF point.kind # "Bool" /\ Truthy(point.unit)
             THEN Some([html |-> <<value, d[1].unit, d[1].time, d[1].fmttime>>])
             ELSE Some([html |-> <<value, d[1].time, d[1].fmttime>>])

\* No current value rendered as zero.
CurrentOrMarker_zero(cv, raw) == IF cv = None THEN [int |-> 0] ELSE cv[1]

\* Lines 118-122: the marker stored when there is no current value.  The
\* values a current_value can take are records: [str |-> ...] a str,
\* [items |-> {}] the empty dict, [html |-> ...] the markup of
\* get_current_value, or the dict of get_current_value_dict.
NoData(raw) == IF raw THEN [items |-> {}] ELSE [str |-> <<"N", "/", "A">>]
CurrentOrMarker(cv, raw) == IF cv = None THEN NoData(raw) ELSE cv[1]


\* ------------------------------------------------------------------ get_point_values
\* The validation falling back to another granularity than DEFAULT_RES.
ValidDateTrunc_second(date_trunc) ==
    IF date_trunc \notin {"day", "hour", "minute", "second"} THEN "second"
    ELSE date_trunc

\* Lines 181-182
ValidDateTrunc(date_trunc) ==
    IF date_trunc \notin {"day", "hour", "minute", "second"} THEN DEFAULT_RES
    ELSE date_trunc

\* Lines 229-243: the rows decoded in fetch order, up to the first that raises
DecodeAll(rows, is_bool, ts_as_datetime) ==
    LET dec == [i \in 1..Len(rows) |-> DecodeRow(rows[i], is_bool, ts_as_datetime)]
    IN  IF \E i \in 1..Len(rows) : dec[i].exc # "none"
        THEN [exc |-> "TypeError", data |-> <<>>]
        ELSE [exc |-> "none", data |-> [i \in 1..Len(rows) |-> dec[i].row]]

Outcome(e, s, en, q, r, c) ==
    [exc |-> e, start |-> s, end |-> en, sql |-> q, ret |-> r, closed |-> c]

\* Lines 177-247.  a: the arguments and what the environment does during the
\* call (the two clock reads, whether the store answers); store: the table.
\* closed tells whether line 246 was reached.
PointValues(a, store) ==
    LET date_trunc == ValidDateTrunc(a.date_trunc)
        is_number == a.d.kind = "Number"
        is_bool == a.d.kind = "Bool"
        trange == DefaultRange(a.trange)
        rng == ResolveRange(trange, a.end_now, a.start_now)
        sql == BuildSql(is_number, is_bool, date_trunc, a.value_func)
        rows == Execute(sql, store, a.d.topic, rng.start, rng.end)
        dec == DecodeAll(rows, is_bool, a.ts_as_datetime)
    IN  IF rng.exc # "none"
        THEN Outcome(rng.exc, None, None, None, None, FALSE)
        ELSE IF ~a.store_up
        THEN Outcome("StoreError", Some(rng.start), Some(rng.end), Some(sql), None, FALSE)
        ELSE IF dec.exc # "none"
        THEN Outcome(dec.exc, Some(rng.start), Some(rng.end), Some(sql), None, FALSE)
        ELSE Outcome("none", Some(rng.start), Some(rng.end), Some(sql),
                     Some(reversed(dec.data)), TRUE)

\* ------------------------------------------------------------------ inputs
Today == <<"t", "o", "d", "a", "y">>
Yesterday == <<"y", "e", "s", "t", "e", "r", "d", "a", "y">>
RelativeTokens ==
    { <<"3", " ", "m", "o", "n", "t", "h", "s">>,
      <<"1", " ", "m", "o", "n", "t", "h">>,
      <<"2", " ", "m", "o", "n", "t", "h">>,
      <<"0", " ", "m", "o", "n", "t", "h", "s">>,
      <<"3", " ", "d", "a", "y", "s">>,
      <<"2", "4", "h">>,
      <<"0", "h">>,
      <<"-", "2", "h">>,
      <<"5", "m">>,
      <<"1", "m">> }
MalformedTokens ==
    { <<"x", " ", "m", "o", "n", "t", "h", "s">>,
      <<"1", ".", "5", " ", "m", "o", "n", "t", "h">>,
      <<" ", "m", "o", "n", "t", "h">>,
      <<"t", "w", "o", " ", "d", "a", "y", "s">>,
      <<"x", "h">>,
      <<"3", "p", "m">>,
      <<"b", "a", "d">>,
      DateA \o <<",">> \o <<"b", "a", "d">>,
      DateA \o <<",">> }
DateTokens ==
    { DateA, DateB,
      DateA \o <<",">> \o DateB,
      DateB \o <<",">> \o DateA,
      DateA \o <<",">> \o DateA }
EmptyTokens == {<<>>, NoneToken}
\* Text after a second comma: line 208 splits it off and no line reads it.
ExtraSegmentTokens == { DateA \o <<",">> \o DateB \o <<",">> \o <<"b", "a", "d">> }
Tokens ==
    {Today, Yesterday} \cup RelativeTokens \cup MalformedTokens \cup DateTokens
    \cup EmptyTokens \cup ExtraSegmentTokens

Call(d, date_trunc, value_func, trange, ts_as_datetime, step, up) ==
    [d |-> d, date_trunc |-> date_trunc, value_func |-> value_func,
     trange |-> trange, ts_as_datetime |-> ts_as_datetime,
     end_now |-> Now0, start_now |-> Now0 + step, store_up |-> up]

\* The calls explored: every token with the default arguments and every
\* clock step, and every other argument with a few tokens.
PointValuesCalls ==
    { Call(d, "minute", "avg", tr, FALSE, k, TRUE) :
        d \in {pBool, pTemp, pStr}, tr \in Tokens, k \in 0..MaxClockStep }
    \cup
    { Call(d, dt, "avg", tr, tsdt, 0, up) :
        d \in {pBool, pTemp, pStr},
        dt \in {"day", "hour", "minute", "second", "fortnight"},
        tr \in {<<>>, DEFAULT_RANGE, <<"3", " ", "d", "a", "y", "s">>},
        tsdt \in BOOLEAN, up \in BOOLEAN }
    \cup
    { Call(d, dt, "max", DEFAULT_RANGE, FALSE, 0, TRUE) :
        d \in {pBool, pTemp, pStr}, dt \in {"day", "fortnight"} }


\* ------------------------------------------------------------------ operations
CurrentPoints == {pBool, pTemp, pStr, pTemp2, pIdle}

RECURSIVE SeqsUpTo(_, _)
SeqsUpTo(S, n) ==
    IF n = 0 THEN {<<>>}
    ELSE LET shorter == SeqsUpTo(S, n - 1)
         IN  shorter \cup {Append(q, x) : q \in shorter, x \in S}

Idle ==
    /\ pc = "idle" /\ op = "none" /\ args = None /\ exc = "none" /\ ret = None
    /\ range_start = None /\ range_end = None /\ statement = None

\* No topic, an empty session and no API key.
NoDjango == Topic_objects = {} /\ session = {} /\ GOOGLE_API_KEY = None

Init ==
    /\ volttron \in Stores
    /\ conns = 0
    /\ Idle
    /\ NoDjango

Ended(name, a, e, r) ==
    /\ pc' = "returned" /\ op' = name /\ args' = a /\ exc' = e /\ ret' = r

\* get_point_values, lines 177-247
GetPointValues ==
    /\ pc = "idle" /\ conns < MaxLeaked
    /\ \E a \in PointValuesCalls :
         LET r == PointValues(a, volttron)
         IN  /\ Ended("get_point_values", a, r.exc, r.ret)
             /\ range_start' = r.start /\ range_end' = r.end /\ statement' = r.sql
             /\ conns' = IF r.closed THEN conns ELSE conns + 1
    /\ UNCHANGED <<volttron, django>>

\* get_current_value_dict, lines 53-87.  connection_given: the caller passed
\* its own connection, which the operation neither opens nor closes.
\* cursor.execute raises when the store does not answer, before the closes
\* of lines 63-65.
CurrentDictCall(point, connection_given, up, store) ==
    IF ~up THEN [exc |-> "StoreError", ret |-> None, closed |-> connection_given]
    ELSE [exc |-> "none", ret |-> CurrentValueDict(point, Latest(store, point.topic)),
          closed |-> TRUE]

GetCurrentValueDict ==
    /\ pc = "idle" /\ conns < MaxLeaked
    /\ \E point \in CurrentPoints, given \in BOOLEAN, up \in BOOLEAN :
         LET r == CurrentDictCall(point, given, up, volttron)
         IN  /\ Ended("get_current_value_dict",
                      [point |-> point, connection_given |-> given, store_up |-> up],
                      r.exc, r.ret)
             /\ conns' = IF r.closed THEN conns ELSE conns + 1
    /\ UNCHANGED <<volttron, range_start, range_end, statement, django>>

\* get_current_value, lines 90-110
CurrentValueCall(point, connection_given, raw, up, store) ==
    LET d == CurrentDictCall(point, connection_given, up, store)
    IN  IF d.exc # "none" THEN d
        ELSE [exc |-> "none", ret |-> CurrentValue(point, d.ret, raw), closed |-> TRUE]

GetCurrentValue ==
    /\ pc = "idle" /\ conns < MaxLeaked
    /\ \E point \in CurrentPoints, given \in BOOLEAN, raw \in BOOLEAN, up \in BOOLEAN :
         LET r == CurrentValueCall(point, given, raw, up, volttron)
         IN  /\ Ended("get_current_value",
                      [point |-> point, connection_given |-> given, raw |-> raw,
                       store_up |-> up],
                      r.exc, r.ret)
             /\ conns' = IF r.closed THEN conns ELSE conns + 1
    /\ UNCHANGED <<volttron, range_start, range_end, statement, django>>

\* add_current_values, lines 113-125: the points in order, each with the
\* current_value set on it.  The connection of line 115 is shared by every
\* get_current_value and closed on line 124.
AddCurrentValuesCall(d2, raw, up, store) ==
    LET cv(i) == CurrentValueCall(d2[i], TRUE, raw, up, store)
    IN  IF \E i \in 1..Len(d2) : cv(i).exc # "none"
        THEN [exc |-> "StoreError", ret |-> None, closed |-> FALSE]
        ELSE [exc |-> "none",
              ret |-> Some([i \in 1..Len(d2) |->
                             [point |-> d2[i],
                              current_value |-> CurrentOrMarker(cv(i).ret, raw)]]),
              closed |-> TRUE]

AddCurrentValues ==
    /\ pc = "idle" /\ conns < MaxLeaked
    /\ \E d2 \in SeqsUpTo(CurrentPoints, MaxData), raw \in BOOLEAN, up \in BOOLEAN :
         LET r == AddCurrentValuesCall(d2, raw, up, volttron)
         IN  /\ Ended("add_current_values",
                      [data |-> d2, raw |-> raw, store_up |-> up], r.exc, r.ret)
             /\ conns' = IF r.closed THEN conns ELSE conns + 1
    /\ UNCHANGED <<volttron, range_start, range_end, statement, django>>

\* ------------------------------------------------------------------ get_ahu_current_values
\* Lines 137-153: the roles in the order of the dict q, each with the tags a
\* point must have and those it must not have.
Roles ==
    <<"Space Air Temp", "Return Air Temp", "Supply Fan Speed", "Cooling",
      "Heating", "CO2">>
Has(n) ==
    CASE n = "Space Air Temp" -> {"air", "his", "point", "sensor", "temp"}
      [] n = "Return Air Temp" -> {"air", "his", "point", "sensor", "temp", "return"}
      [] n = "Supply Fan Speed" ->
            {"air", "his", "point", "sensor", "fan", "speed", "discharge"}
      [] n = "Cooling" -> {"his", "point", "sensor", "cooling"}
      [] n = "Heating" -> {"his", "point", "sensor", "heat"}
      [] n = "CO2" -> {"his", "point", "sensor", "co2", "zone"}
Exclude(n) ==
    CASE n = "Space Air Temp" -> {"mixed", "discharge", "return", "outside"}
      [] n = "Cooling" -> {"heat"}
      [] n = "Heating" -> {"cooling"}
      [] OTHER -> {}

\* The candidates without the exclude() of lines 158-159.
Candidates_no_exclude(data_points, n) ==
    LET Matches(x) == Has(n) \subseteq x.m_tags
    IN  SelectSeq(data_points, Matches)

\* Lines 157-159.  QuerySet.filter and exclude keep the rows for which the
\* test holds, in the order the metadata store returns them.
Candidates(data_points, n) ==
    LET Matches(x) == Has(n) \subseteq x.m_tags /\ x.m_tags \cap Exclude(n) = {}
    IN  SelectSeq(data_points, Matches)

\* list.sort(key=lambda x: len(x.m_tags)): ascending and stable
RECURSIVE SortByTagCount(_)
SortByTagCount(pl) ==
    IF pl = <<>> THEN <<>>
    ELSE LET rest == SortByTagCount(SubSeq(pl, 1, Len(pl) - 1))
             x == pl[Len(pl)]
             k == Cardinality({i \in 1..Len(rest) :
                                 Cardinality(rest[i].m_tags) <= Cardinality(x.m_tags)})
         IN  SubSeq(rest, 1, k) \o <<x>> \o SubSeq(rest, k + 1, Len(rest))

\* The first candidate as the metadata store returns them, with no sort.
Selected_unsorted(p) == p[1]

\* Lines 160-169: the point used for a role with candidates p
Selected(p) == IF Len(p) > 1 THEN SortByTagCount(p)[1] ELSE p[1]

\* Lines 154-170.  points: the rows of the metadata store, in its order.
\* Every role with a candidate calls add_current_values, which opens and
\* closes its own connection and raises when the store does not answer.
AhuCurrentValues(equipment_id, points, up, store) ==
    LET ForEquipment(x) == x.equipment_id = equipment_id
        data_points == SelectSeq(points, ForEquipment)
        found == {i \in 1..Len(Roles) : Len(Candidates(data_points, Roles[i])) > 0}
        one(n) == AddCurrentValuesCall(<<Selected(Candidates(data_points, n))>>,
                                      TRUE, up, store)
    IN  IF \E i \in found : one(Roles[i]).exc # "none"
        THEN [exc |-> "StoreError", ret |-> None, closed |-> FALSE]
        ELSE [exc |-> "none",
              ret |-> Some([n \in {Roles[i] : i \in found} |-> one(n).ret[1][1]]),
              closed |-> TRUE]

TagsSpace == {"air", "his", "point", "sensor", "temp"}
AhuPointPool ==
    { Point("a-space", "T1", "Number", Some(DegF), "E1", TagsSpace),
      Point("a-space7", "T2", "Number", Some(DegF), "E1", TagsSpace \cup {"zone", "cmd"}),
      Point("a-zone", "T3", "Number", Some(DegF), "E1", TagsSpace \cup {"zone"}),
      Point("a-return", "T3", "Number", Some(DegF), "E1", TagsSpace \cup {"return"}),
      Point("a-return7", "T3", "Number", Some(DegF), "E1", TagsSpace \cup {"return", "zone"}),
      Point("a-cool", "T1", "Bool", None, "E1", {"his", "point", "sensor", "cooling"}),
      Point("a-both", "T3", "Bool", None, "E1",
            {"his", "point", "sensor", "cooling", "heat"}),
      Point("a-other", "T1", "Number", Some(DegF), "E2", TagsSpace),
      Point("a-bare", "T3", "String", None, "E1", {}) }

IsInjective(q) == \A i, j \in 1..Len(q) : q[i] = q[j] => i = j
AhuPointTables == {q \in SeqsUpTo(AhuPointPool, MaxPoints) : IsInjective(q)}

GetAhuCurrentValues ==
    /\ pc = "idle" /\ conns < MaxLeaked
    /\ \E equipment_id \in {"E1", "E2"}, points \in AhuPointTables, up \in BOOLEAN :
         LET r == AhuCurrentValues(equipment_id, points, up, volttron)
         IN  /\ Ended("get_ahu_current_values",
                      [equipment_id |-> equipment_id, points |-> points, store_up |-> up],
                      r.exc, r.ret)
             /\ conns' = IF r.closed THEN conns ELSE conns + 1
    /\ UNCHANGED <<volttron, range_start, range_end, statement, django>>

\* The caller takes the result; the next operation starts afresh.
Return ==
    /\ pc = "returned"
    /\ pc' = "idle" /\ op' = "none" /\ args' = None /\ exc' = "none" /\ ret' = None
    /\ range_start' = None /\ range_end' = None /\ statement' = None
    /\ UNCHANGED <<volttron, conns, django>>

Next ==
    \/ GetPointValues
    \/ GetCurrentValueDict
    \/ GetCurrentValue
    \/ AddCurrentValues
    \/ Return

Spec == Init /\ [][Next]_vars

\* The role resolver on its own, over a store with and without the current
\* values it reads.
AhuStores ==
    { {},
      {Reading("T1", tA, Some(<<"2", "1", ".", "5", "4">>), Some(2154))},
      {Reading("T1", tA, Some(<<"t">>), None),
       Reading("T2", tC, Some(<<"5">>), Some(500))} }

InitAhu ==
    /\ volttron \in AhuStores
    /\ conns = 0
    /\ Idle
    /\ NoDjango

NextAhu ==
    \/ GetAhuCurrentValues
    \/ Return

SpecAhu == InitAhu /\ [][NextAhu]_vars


\* ------------------------------------------------------------------ tags report
\* get_topics_tags_report, lines 250-303.
\* A row of the Topic table is [topic, point]: the topic's name, which is the
\* table's key, and what topic.get_related_point() gives, None or a point
\* [kv_tags, m_tags].  kv_tags is a dict, written as the sequence of its
\* <<key, value>> items in iteration order; m_tags is a list.
MaxTopics == 2

\* Python orders str by code point: upper case before lower case.
CodePoints == <<"Z", "d", "h", "i", "s">>
CodePoint(c) == CHOOSE i \in 1..Len(CodePoints) : CodePoints[i] = c

\* a < b for two Python str
RECURSIVE str_lt(_, _)
str_lt(a, b) ==
    IF b = <<>> THEN FALSE
    ELSE IF a = <<>> THEN TRUE
    ELSE IF a[1] # b[1] THEN CodePoint(a[1]) < CodePoint(b[1])
    ELSE str_lt(Tail(a), Tail(b))

\* The header left in the order the tags were met.
not_sorted(l) == l

\* Python's sorted(list of str): ascending and stable.
RECURSIVE sorted(_)
sorted(l) ==
    IF l = <<>> THEN <<>>
    ELSE LET q == sorted(DropLast(l, 1))
             x == l[Len(l)]
             k == Cardinality({i \in 1..Len(q) : ~str_lt(x, q[i])})
         IN  SubSeq(q, 1, k) \o <<x>> \o SubSeq(q, k + 1, Len(q))

keys(kv_tags) == [i \in 1..Len(kv_tags) |-> kv_tags[i][1]]
In(x, l) == \E i \in 1..Len(l) : l[i] = x
Get(kv_tags, key) == kv_tags[CHOOSE i \in 1..Len(kv_tags) : kv_tags[i][1] = key][2]

\* lines 264-266 and 271-273: append each name the header does not hold yet
RECURSIVE AppendNew(_, _)
AppendNew(report_header, names) ==
    IF names = <<>> THEN report_header
    ELSE AppendNew(IF In(names[1], report_header) THEN report_header
                   ELSE Append(report_header, names[1]),
                   Tail(names))

\* tags_exists of lines 259-275
TagsExist(point) == point # None /\ (point[1].kv_tags # <<>> \/ point[1].m_tags # <<>>)

\* The first loop, lines 256-276: the header before it is sorted.  An empty
\* kv_tags or m_tags is falsy and AppendNew leaves the header as it is.
RECURSIVE CollectHeader(_, _)
CollectHeader(topics, report_header) ==
    IF topics = <<>> THEN report_header
    ELSE LET point == topics[1].point
         IN  CollectHeader(Tail(topics),
                 IF point = None THEN report_header
                 ELSE AppendNew(AppendNew(report_header, keys(point[1].kv_tags)),
                                point[1].m_tags))

\* topics_tags.get(topic.topic), lines 275-276 and 281: the topic_tags dict
\* stored for the topic, with kv_tags and m_tags as topic_tags.get(...) of
\* lines 286-287 gives them; None when nothing was stored.
topics_tags_get(topics, name) ==
    IF \E i \in 1..Len(topics) : topics[i].topic = name /\ TagsExist(topics[i].point)
    THEN LET i == CHOOSE j \in 1..Len(topics) :
                      /\ topics[j].topic = name /\ TagsExist(topics[j].point)
                      /\ \A k \in (j + 1)..Len(topics) :
                            ~(topics[k].topic = name /\ TagsExist(topics[k].point))
         IN  Some([kv_tags |-> topics[i].point[1].kv_tags,
                   m_tags |-> topics[i].point[1].m_tags])
    ELSE None

\* The cell with the marker looked up before the key-value tag.
Cell_marker_first(tag, kv_tags, m_tags) ==
    IF m_tags # <<>> /\ In(tag, m_tags) THEN <<"X">>
    ELSE IF kv_tags # <<>> /\ In(tag, keys(kv_tags)) THEN Get(kv_tags, tag)
    ELSE <<>>

\* lines 289-295
Cell(tag, kv_tags, m_tags) ==
    IF kv_tags # <<>> /\ In(tag, keys(kv_tags)) THEN Get(kv_tags, tag)
    ELSE IF m_tags # <<>> /\ In(tag, m_tags) THEN <<"X">>
    ELSE <<>>

\* lines 281-298: the row of one topic
Row(name, topic_tags, report_header) ==
    IF topic_tags = None
    THEN <<name>> \o [i \in 1..Len(report_header) |-> <<>>]
    ELSE IF topic_tags[1].kv_tags # <<>> \/ topic_tags[1].m_tags # <<>>
    THEN <<name>> \o [i \in 1..Len(report_header) |->
                        Cell(report_header[i], topic_tags[1].kv_tags, topic_tags[1].m_tags)]
    ELSE <<name, <<>> >>

\* lines 250-303: (report_rows, report_header) for the topics in the order
\* the query gave them
TopicsTagsReport(topics) ==
    LET report_header == sorted(CollectHeader(topics, <<>>))
    IN  << [i \in 1..Len(topics) |->
              Row(topics[i].topic, topics_tags_get(topics, topics[i].topic),
                  report_header)],
           <<<<"t", "o", "p", "i", "c">>>> \o report_header >>

dis == <<"d", "i", "s">>
his == <<"h", "i", "s">>
Room1 == <<"R", "o", "o", "m", " ", "1">>
TaggedPoint(kv_tags, m_tags) == Some([kv_tags |-> kv_tags, m_tags |-> m_tags])
RelatedPoints ==
    { None,
      TaggedPoint(<<>>, <<>>),
      TaggedPoint(<<>>, <<his>>),
      TaggedPoint(<< <<dis, Room1>> >>, <<>>),
      TaggedPoint(<< <<his, <<>> >> >>, <<>>),
      TaggedPoint(<< <<dis, Room1>>, <<<<"Z">>, <<"X">> >> >>, <<>>),
      TaggedPoint(<<>>, <<his, <<"h", "i">>, his>>),
      TaggedPoint(<< <<his, Room1>> >>, <<his, dis>>),
      TaggedPoint(<<>>, <<dis, <<"Z">> >>) }
TopicNames == {<<"A">>, <<"B">>, <<"C">>}

\* The Topic table: at most MaxTopics rows, one per name.
TopicTables ==
    UNION { [N -> RelatedPoints] : N \in {M \in SUBSET TopicNames : Cardinality(M) <= MaxTopics} }
TableRows(f) == {[topic |-> n, point |-> f[n]] : n \in DOMAIN f}

\* Every order in which a query can give the rows of a table.
RECURSIVE Enumerations(_)
Enumerations(S) ==
    IF S = {} THEN {<<>>}
    ELSE UNION { {<<x>> \o q : q \in Enumerations(S \ {x})} : x \in S }

\* Topic.objects.all().order_by('topic'), line 251: the rows ordered by the
\* database's collation of the names, which the code does not fix; every
\* order is explored.  Both loops read the same evaluated query.
GetTopicsTagsReport ==
    /\ pc = "idle"
    /\ \E topics \in Enumerations(Topic_objects) :
         Ended("get_topics_tags_report", [topics |-> topics], "none",
               Some(TopicsTagsReport(topics)))
    /\ UNCHANGED <<volttron, conns, range_start, range_end, statement, django>>

InitReport ==
    /\ volttron = {}
    /\ conns = 0
    /\ Idle
    /\ Topic_objects \in {TableRows(f) : f \in TopicTables}
    /\ session = {}
    /\ GOOGLE_API_KEY = None

NextReport ==
    \/ GetTopicsTagsReport
    \/ Return

SpecReport == InitReport /\ [][NextReport]_vars


\* ------------------------------------------------------------------ site address
\* get_site_addr_loc, lines 571-610.
\* tags is a dict of str, written as the sequence of its <<tag, value>> items
\* in iteration order.  The session store is the set of its [key, value]
\* items, at most one for a key.
geoCity == <<"g", "e", "o", "C", "i", "t", "y">>
geoCountry == <<"g", "e", "o", "C", "o", "u", "n", "t", "r", "y">>
geoPostalCode == <<"g", "e", "o", "P", "o", "s", "t", "a", "l", "C", "o", "d", "e">>
geoState == <<"g", "e", "o", "S", "t", "a", "t", "e">>
geoStreet == <<"g", "e", "o", "S", "t", "r", "e", "e", "t">>
geoAddr == <<"g", "e", "o", "A", "d", "d", "r">>
allowed_tags == {geoCity, geoCountry, geoPostalCode, geoState, geoStreet, geoAddr}

\* lines 578-588: the loop over the tags
RECURSIVE TagsLoop(_, _, _, _)
TagsLoop(tags, site_address, show_google_map, geo_addr) ==
    IF tags = <<>>
    THEN [site_address |-> site_address, show_google_map |-> show_google_map,
          geo_addr |-> geo_addr]
    ELSE LET tag == tags[1][1]
             value == tags[1][2]
         IN  IF tag \in allowed_tags /\ value # <<>>
             THEN IF tag = geoAddr
                  THEN TagsLoop(Tail(tags), site_address, show_google_map, Some(value))
                  ELSE TagsLoop(Tail(tags),
                                (IF site_address # <<>> THEN site_address \o <<",", " ">>
                                 ELSE site_address) \o value,
                                show_google_map \/ tag = geoStreet,
                                geo_addr)
             ELSE TagsLoop(Tail(tags), site_address, show_google_map, geo_addr)

\* lines 572-594: the composed address and whether it is looked up.  tags may
\* be None or empty (line 577).
ComposeAddress(tags) ==
    LET l == TagsLoop(tags, <<>>, FALSE, None)
    IN  IF ~l.show_google_map /\ l.geo_addr # None /\ l.geo_addr[1] # <<>>
        THEN [site_address |-> (IF l.site_address # <<>>
                                THEN l.site_address \o <<",", " ">>
                                ELSE l.site_address) \o l.geo_addr[1],
              show_google_map |-> TRUE]
        ELSE [site_address |-> l.site_address, show_google_map |-> l.show_google_map]

\* hashlib.md5(site_address.encode('utf-8')).hexdigest(), lines 597-598, for
\* the addresses composed here.  A digest is only compared and is written as
\* one string.
md5_hexdigest(site_address) ==
    IF site_address = <<"5", " ", "E", "l", "m", ",", " ", "A", "m", "e", "s">>
    THEN "91c998c8569e02a75501c82c36c7ebcb"
    ELSE IF site_address = <<"A", "m", "e", "s", ",", " ", "5", " ", "E", "l", "m">>
    THEN "d4d12cf65c503ff096221f7fda2b8fce"
    ELSE IF site_address = <<"P", "O", " ", "7">>
    THEN "79e48b3f14045b70339415731e986e87"
    ELSE IF site_address = <<"A", "m", "e", "s", ",", " ", "P", "O", " ", "7">>
    THEN "fe497fd33944e609061803d7c57ba7e5"
    ELSE IF site_address = <<"5", " ", "E", "l", "m">>
    THEN "b7922f7126f9dfd08b9f3a0ae433aa70"
    ELSE IF site_address = <<"A", "m", "e", "s">>
    THEN "33a6d4985c93bc1adf3f22a3bb16a43f"
    ELSE "d41d8cd98f00b204e9800998ecf8427e"

\* hash_key in session, session[hash_key], session[hash_key] = addr_loc
Contains(sess, hash_key) == \E item \in sess : item.key = hash_key
Lookup(sess, hash_key) == (CHOOSE item \in sess : item.key = hash_key).value
Store(sess, hash_key, addr_loc) ==
    {item \in sess : item.key # hash_key} \cup {[key |-> hash_key, value |-> addr_loc]}

\* The session never read: every call asks the geocoding service.
CachedLocation_never(sess, hash_key) == None

\* lines 600-601: addr_loc after the session was read
CachedLocation(sess, hash_key) ==
    IF Contains(sess, hash_key) THEN Some(Lookup(sess, hash_key)) ELSE None

\* Python truthiness of settings.GOOGLE_API_KEY: None and '' are falsy.
KeyConfigured(api_key) == api_key # None /\ api_key[1] # <<>>

\* Whether the call reaches geocoder.google (line 604).
CallsGeocoder(api_key, tags, sess) ==
    LET a == ComposeAddress(tags)
    IN  /\ KeyConfigured(api_key)
        /\ a.site_address # <<>> /\ a.show_google_map
        /\ CachedLocation(sess, md5_hexdigest(a.site_address)) = None

\* lines 571-610.  geo_json is geo.json of the geocoding service's answer,
\* read only when CallsGeocoder: None when the service gave nothing, else
\* [ok, lat, lng].  The result is the returned addr_loc and the session.
SiteAddrLoc(api_key, tags, site_id, sess, geo_json) ==
    LET a == ComposeAddress(tags)
        hash_key == md5_hexdigest(a.site_address)
        cached == CachedLocation(sess, hash_key)
    IN  IF ~KeyConfigured(api_key) \/ a.site_address = <<>> \/ ~a.show_google_map
        THEN [ret |-> None, session |-> sess]
        ELSE IF cached # None
        THEN [ret |-> cached, session |-> sess]
        ELSE IF geo_json # None /\ geo_json[1].ok
        THEN LET addr_loc == [latitude |-> geo_json[1].lat,
                              longitude |-> geo_json[1].lng,
                              site_id |-> site_id]
             IN  [ret |-> Some(addr_loc), session |-> Store(sess, hash_key, addr_loc)]
        ELSE [ret |-> None, session |-> sess]

Elm == <<"5", " ", "E", "l", "m">>
Ames == <<"A", "m", "e", "s">>
PO7 == <<"P", "O", " ", "7">>
SiteTags ==
    { <<>>,
      << <<geoCity, Ames>> >>,
      << <<geoStreet, Elm>>, <<geoCity, Ames>> >>,
      << <<geoCity, Ames>>, <<geoStreet, Elm>> >>,
      << <<geoAddr, PO7>> >>,
      << <<geoCity, Ames>>, <<geoAddr, PO7>> >>,
      << <<geoStreet, Elm>>, <<geoAddr, PO7>> >>,
      << <<dis, Room1>>, <<geoStreet, Elm>> >>,
      << <<geoStreet, <<>> >> >> }
SiteIds == {"S1", "S2"}
GeoAnswer(ok, lat, lng) == Some([ok |-> ok, lat |-> lat, lng |-> lng])
GeoAnswers == {None, GeoAnswer(FALSE, 0, 0), GeoAnswer(TRUE, 48, 2), GeoAnswer(TRUE, 0, 0)}
ApiKeys == {None, Some(<<>>), Some(<<"k", "e", "y">>)}

\* One call of get_site_addr_loc on the shared session.  args records
\* whether the geocoding service was called and what it answered.
GetSiteAddrLoc ==
    /\ pc = "idle"
    /\ \E tags \in SiteTags, site_id \in SiteIds :
         LET called == CallsGeocoder(GOOGLE_API_KEY, tags, session)
         IN  \E geo_json \in (IF called THEN GeoAnswers ELSE {None}) :
                LET r == SiteAddrLoc(GOOGLE_API_KEY, tags, site_id, session, geo_json)
                IN  /\ Ended("get_site_addr_loc",
                             [tags |-> tags, site_id |-> site_id,
                              geocoded |-> called, geo_json |-> geo_json],
                             "none", r.ret)
                    /\ session' = r.session
    /\ UNCHANGED <<volttron, conns, range_start, range_end, statement,
                   Topic_objects, GOOGLE_API_KEY>>

InitSite ==
    /\ volttron = {}
    /\ conns = 0
    /\ Idle
    /\ Topic_objects = {}
    /\ session = {}
    /\ GOOGLE_API_KEY \in ApiKeys

NextSite ==
    \/ GetSiteAddrLoc
    \/ Return

SpecSite == InitSite /\ [][NextSite]_vars


\* ------------------------------------------------------------------ claims
PointValuesEnded == pc = "returned" /\ op = "get_point_values"

\* What the grammar says each well-formed relative token subtracts from now.
SpanOf(trange) ==
    CASE trange = <<"3", " ", "m", "o", "n", "t", "h", "s">> -> 90 * Day
      [] trange = <<"1", " ", "m", "o", "n", "t", "h">> -> 30 * Day
      [] trange = <<"2", " ", "m", "o", "n", "t", "h">> -> 60 * Day
      [] trange = <<"0", " ", "m", "o", "n", "t", "h", "s">> -> 0
      [] trange = <<"3", " ", "d", "a", "y", "s">> -> 3 * Day
      [] trange = <<"2", "4", "h">> -> 24 * Hour
      [] trange = <<"0", "h">> -> 0
      [] trange = <<"-", "2", "h">> -> 0 - 2 * Hour
      [] trange = <<"5", "m">> -> 5 * Minute
      [] trange = <<"1", "m">> -> Minute

\* The bounds the grammar gives a well-formed token, with now_start the
\* instant start is counted from and now_end the one end is counted from.
GrammarBounds(trange, now_start, now_end) ==
    CASE trange = Today -> <<now_start - Day, now_end>>
      [] trange = Yesterday -> <<now_start - 2 * Day, now_end - Day>>
      [] trange \in RelativeTokens -> <<now_start - SpanOf(trange), now_end>>
      [] trange = DateA -> <<DateValue(DateA), now_end>>
      [] trange = DateB -> <<DateValue(DateB), now_end>>
      [] trange = DateA \o <<",">> \o DateB -> <<DateValue(DateA), DateValue(DateB)>>
      [] trange = DateB \o <<",">> \o DateA -> <<DateValue(DateB), DateValue(DateA)>>
      [] trange = DateA \o <<",">> \o DateA -> <<DateValue(DateA), DateValue(DateA)>>

WellFormedTokens == {Today, Yesterday} \cup RelativeTokens \cup DateTokens

\* C1 (as amended): for every well-formed token get_point_values resolves the
\* bounds by the first matching rule of the grammar - 'today', 'yesterday',
\* '<N> months', '<N> month', '<N> days', '<N>h', '<N>m', then explicit dates -
\* with a month of 30 days ('1 month' is 30 days and not an 'h' token), where
\* end is counted from the clock read of line 189 and start from the separate
\* clock read of line 190.
C1_RulesInOrder ==
    (PointValuesEnded /\ args.trange \in WellFormedTokens)
    => LET b == GrammarBounds(args.trange, args.start_now, args.end_now)
       IN  range_start = Some(b[1]) /\ range_end = Some(b[2])

\* C1 witness: '1 month' resolved, with the clock advanced between the reads.
C1_Witness ==
    /\ PointValuesEnded
    /\ args.trange = <<"1", " ", "m", "o", "n", "t", "h">>
    /\ args.start_now > args.end_now
    /\ range_start = Some(args.start_now - 30 * Day)

\* C1 as stated: both bounds are counted from one instant now.
C1_OneNow ==
    (PointValuesEnded /\ args.trange \in WellFormedTokens)
    => \E now \in args.end_now..args.start_now :
          LET b == GrammarBounds(args.trange, now, now)
          IN  range_start = Some(b[1]) /\ range_end = Some(b[2])

\* C2 as stated: every supported token resolves to start < end.
C2_StartBeforeEnd ==
    (PointValuesEnded /\ args.trange \in WellFormedTokens)
    => (range_start # None /\ range_start[1] < range_end[1])

\* C3 as stated: an operation that opens its connection itself ends with no
\* more connection open than when it started, whether it returns or raises.
C3_OwnConnectionClosed ==
    [][(pc' = "returned"
        /\ op' \in {"get_point_values", "get_current_value_dict", "add_current_values"})
       => conns' = conns]_vars

Observed == <<exc, ret, range_start, range_end, statement>>
ObservedOf(r) == <<r.exc, r.ret, r.start, r.end, r.sql>>

\* C5: a granularity outside {day, hour, minute, second} gives the statement
\* and the result of granularity 'minute' (the statement names 'minute'), and
\* an empty or missing range token gives those of '24h': start is 24 hours
\* before the clock read, end is the clock read, and no parsing error is
\* raised.
C5_SilentDefaults ==
    PointValuesEnded
    => /\ args.date_trunc \notin {"day", "hour", "minute", "second"}
          => /\ Observed
                = ObservedOf(PointValues([args EXCEPT !.date_trunc = "minute"], volttron))
             /\ (statement # None /\ statement[1][1] # "raw")
                => statement[1][2] = "minute"
       /\ args.trange \in EmptyTokens
          => /\ Observed
                = ObservedOf(PointValues([args EXCEPT !.trange = <<"2", "4", "h">>], volttron))
             /\ range_start = Some(args.start_now - 24 * Hour)
             /\ range_end = Some(args.end_now)
             /\ exc # "ValueError"

\* C5 witness: a call with granularity 'fortnight' and an empty token has
\* returned rows grouped by minute.
C5_Witness ==
    /\ PointValuesEnded
    /\ args.date_trunc = "fortnight" /\ args.trange = <<>>
    /\ exc = "none"
    /\ statement = Some(<<"number", "minute", "avg">>)
    /\ Len(ret[1]) = 2

\* The rows the store returned to the call that ended, newest first.
FetchedRows ==
    Execute(statement[1], volttron, args.d.topic, range_start[1], range_end[1])

BoolRowsFetched ==
    /\ PointValuesEnded /\ args.d.kind = "Bool"
    /\ statement # None /\ args.store_up

\* C6 (as amended): for a Bool point the decoded value of a row is 1 when the
\* representative string is non-empty and not '0' ('t' included); otherwise -
\* the string is '0', empty or absent - it is the rounded numeric aggregate,
\* and the call raises TypeError, returning nothing, when that aggregate is
\* absent.
C6_BoolDecoding ==
    BoolRowsFetched
    => LET rows == FetchedRows
           n == Len(rows)
           one(i) == rows[i][2] # None /\ rows[i][2][1] # <<>>
                     /\ rows[i][2][1] # <<"0">>
       IN  /\ exc = "TypeError" <=> \E i \in 1..n : ~one(i) /\ rows[i][3] = None
           /\ exc \in {"none", "TypeError"}
           /\ exc = "none"
              => /\ Len(ret[1]) = n
                 /\ \A i \in 1..n :
                      ret[1][n + 1 - i][2]
                      = IF one(i) THEN 1 ELSE round(rows[i][3][1])

\* C6 witness: a row whose representative string is empty was decoded to its
\* rounded aggregate, 5.
C6_Witness ==
    /\ BoolRowsFetched /\ exc = "none"
    /\ \E i \in 1..Len(FetchedRows) :
         /\ FetchedRows[i][2] = Some(<<>>)
         /\ ret[1][Len(ret[1]) + 1 - i][2] = 5

\* C6 as stated: the decoded value is 1 when the representative string is 't'
\* or is not '0', for every string the store returns, the empty and the
\* absent one included; otherwise the rounded aggregate.
C6_AnyStringButZero ==
    BoolRowsFetched
    => LET rows == FetchedRows
           n == Len(rows)
       IN  /\ exc = "none"
           /\ Len(ret[1]) = n
           /\ \A i \in 1..n :
                ret[1][n + 1 - i][2]
                = IF rows[i][2] = Some(<<"t">>) \/ rows[i][2] # Some(<<"0">>)
                  THEN 1 ELSE round(rows[i][3][1])

\* The instant of a returned timestamp, in whole seconds when it was
\* converted to a datetime.
InstantOf(ts) == IF args.ts_as_datetime THEN ts.utc_second * Second ELSE ts

AhuReturned == pc = "returned" /\ op = "get_ahu_current_values" /\ exc = "none"

\* The candidate match set of a role: the points of the requested equipment
\* that carry every required tag of the role and none of its excluded tags.
MatchSet(n) ==
    { x \in {args.points[i] : i \in 1..Len(args.points)} :
        /\ x.equipment_id = args.equipment_id
        /\ Has(n) \subseteq x.m_tags
        /\ x.m_tags \cap Exclude(n) = {} }

RoleNames == {Roles[i] : i \in 1..Len(Roles)}

\* C8: when more than one point matches a role, the point selected has the
\* fewest m_tags among the candidates, in whatever order the metadata store
\* returns them.
C8_FewestTagsWins ==
    AhuReturned
    => \A n \in RoleNames :
          Cardinality(MatchSet(n)) > 1
          => /\ n \in DOMAIN ret[1]
             /\ ret[1][n].point \in MatchSet(n)
             /\ \A x \in MatchSet(n) :
                  Cardinality(ret[1][n].point.m_tags) <= Cardinality(x.m_tags)

\* C8 witness: the store returned the 7-tag point before the 5-tag point and
\* the 5-tag point was selected.
C8_Witness ==
    /\ AhuReturned
    /\ Len(args.points) = 2
    /\ args.points[1].entity_id = "a-space7" /\ args.points[2].entity_id = "a-space"
    /\ args.equipment_id = "E1"
    /\ ret[1]["Space Air Temp"].point.entity_id = "a-space"

\* C9: a role is a key of the result exactly when its candidate match set is
\* not empty; the point under it belongs to the requested equipment, carries
\* every required tag of the role and none of its excluded tags; the result
\* has no key outside the catalog.
C9_RolesMatch ==
    AhuReturned
    => /\ DOMAIN ret[1] = {n \in RoleNames : MatchSet(n) # {}}
       /\ \A n \in DOMAIN ret[1] :
            /\ ret[1][n].point.equipment_id = args.equipment_id
            /\ Has(n) \subseteq ret[1][n].point.m_tags
            /\ ret[1][n].point.m_tags \cap Exclude(n) = {}

\* C9 witness: a return-air point and a cooling point gave exactly their two
\* roles, the return-air point not being taken for the space-air role.
C9_Witness ==
    /\ AhuReturned
    /\ {args.points[i].entity_id : i \in 1..Len(args.points)} = {"a-return", "a-cool"}
    /\ args.equipment_id = "E1"
    /\ DOMAIN ret[1] = {"Return Air Temp", "Cooling"}

HasReading(topic) == \E r \in volttron : r.topic = topic

\* C10: while the store answers, a point whose topic has no reading makes
\* get_current_value_dict and get_current_value return None without raising,
\* and add_current_values sets its current_value to 'N/A' (the empty mapping
\* in raw mode), never to zero; every other point of the call gets the
\* current value of its own topic's latest reading.
C10_NoDataMarker ==
    (pc = "returned" /\ args # None /\ "store_up" \in DOMAIN args /\ args.store_up)
    => /\ (op \in {"get_current_value_dict", "get_current_value"}
           /\ ~HasReading(args.point.topic))
          => (exc = "none" /\ ret = None)
       /\ op = "add_current_values"
          => /\ exc = "none"
             /\ Len(ret[1]) = Len(args.data)
             /\ \A i \in 1..Len(args.data) :
                  /\ ret[1][i].point = args.data[i]
                  /\ ~HasReading(args.data[i].topic)
                     => /\ ret[1][i].current_value
                           = (IF args.raw THEN [items |-> {}]
                              ELSE [str |-> <<"N", "/", "A">>])
                        /\ ret[1][i].current_value # [int |-> 0]
                  /\ HasReading(args.data[i].topic)
                     => ret[1][i].current_value
                        = CurrentValue(args.data[i],
                                       CurrentValueDict(args.data[i],
                                                        Latest(volttron, args.data[i].topic)),
                                       args.raw)[1]

\* C10 witness: one call gave 'N/A' to a point without readings and a value to
\* the point after it.
C10_Witness ==
    /\ pc = "returned" /\ op = "add_current_values" /\ exc = "none"
    /\ ~args.raw
    /\ Len(args.data) = 2
    /\ args.data[1] = pIdle /\ args.data[2] = pTemp2
    /\ ret[1][1].current_value = [str |-> <<"N", "/", "A">>]
    /\ ret[1][2].current_value
       = [html |-> <<Some(<<"2", "1", ".", "5">>), DegF,
                     <<"iso", tA \div TicksPerSecond, tA % TicksPerSecond>>,
                     <<"%m/%d/%Y %H:%M:%S", tA \div TicksPerSecond>>>>]

ReportReturned == pc = "returned" /\ op = "get_topics_tags_report"

\* Every kv_tags key and every m_tags member of the related points.
ObservedTags ==
    UNION { {t.point[1].kv_tags[i][1] : i \in 1..Len(t.point[1].kv_tags)}
            \cup {t.point[1].m_tags[i] : i \in 1..Len(t.point[1].m_tags)} :
            t \in {u \in Topic_objects : u.point # None} }

ExampleTopics ==
    { [topic |-> <<"A">>, point |-> TaggedPoint(<<>>, <<his>>)],
      [topic |-> <<"B">>, point |-> TaggedPoint(<< <<dis, Room1>> >>, <<>>)] }

\* C11: the header of get_topics_tags_report is 'topic' followed by the tags
\* observed on the related points (kv_tags keys and m_tags members), each
\* once, in ascending order of Python's str; it is fixed by the set of tags,
\* whatever the order in which the topics are processed, and topics A with
\* m_tags {his} and B with kv_tags {dis: 'Room 1'} give ['topic', 'dis', 'his'].
C11_HeaderOfTagSet ==
    ReportReturned
    => LET h == ret[1][2]
       IN  /\ h[1] = <<"t", "o", "p", "i", "c">>
           /\ Len(h) = 1 + Cardinality(ObservedTags)
           /\ {h[i] : i \in 2..Len(h)} = ObservedTags
           /\ \A i, j \in 2..Len(h) : i < j => str_lt(h[i], h[j])
           /\ (Topic_objects = ExampleTopics
               => h = << <<"t", "o", "p", "i", "c">>, dis, his >>)

\* A is processed before B, so the tags are met in descending order.
C11_Witness ==
    /\ ReportReturned
    /\ Topic_objects = ExampleTopics
    /\ args.topics[1].topic = <<"A">>
    /\ ret[1][2] = << <<"t", "o", "p", "i", "c">>, dis, his >>

\* The cell the claim gives for a related point and a column.
ExpectedCell(point, c) ==
    IF point = None THEN <<>>
    ELSE IF \E i \in 1..Len(point[1].kv_tags) : point[1].kv_tags[i][1] = c
    THEN (CHOOSE kv \in {point[1].kv_tags[i] : i \in 1..Len(point[1].kv_tags)} :
              kv[1] = c)[2]
    ELSE IF \E i \in 1..Len(point[1].m_tags) : point[1].m_tags[i] = c
    THEN <<"X">>
    ELSE <<>>

\* C12: get_topics_tags_report gives one row for each topic, as long as the
\* header and starting with the topic's name; under the column of tag c the
\* cell is the kv_tags value when c is a key of the topic's kv_tags, otherwise
\* 'X' when c is among its m_tags, otherwise the empty string; a topic with
\* no related point, or with a point without tags, has the empty string in
\* every tag column.
C12_RowsFollowHeader ==
    ReportReturned
    => LET rows == ret[1][1]
           h == ret[1][2]
       IN  /\ Len(rows) = Cardinality(Topic_objects)
           /\ \A t \in Topic_objects :
                \E i \in 1..Len(rows) :
                   /\ rows[i][1] = t.topic
                   /\ \A j \in 1..Len(rows) : rows[j][1] = t.topic => j = i
                   /\ Len(rows[i]) = Len(h)
                   /\ \A c \in 2..Len(h) : rows[i][c] = ExpectedCell(t.point, h[c])
                   /\ (~TagsExist(t.point)
                       => \A c \in 2..Len(h) : rows[i][c] = <<>>)

\* A report with a key-value cell and a marker cell in one row, for a point
\* that has the column's tag both ways, beside a topic without a point.
C12_Witness ==
    /\ ReportReturned
    /\ Len(ret[1][2]) = 3
    /\ \E i, j \in 1..Len(ret[1][1]) :
         /\ ret[1][1][i] = << <<"A">>, <<"X">>, Room1 >>
         /\ ret[1][1][j] = << <<"B">>, <<>>, <<>> >>
         /\ [topic |-> <<"B">>, point |-> None] \in Topic_objects

\* A step in which get_site_addr_loc runs.
SiteCall == pc = "idle" /\ op' = "get_site_addr_loc"

\* C13: over the calls of get_site_addr_loc on one session: without an API
\* key the geocoding service is not called, nothing is returned and nothing
\* is raised; a successful lookup is stored in the session under the md5 of
\* the composed address and returned; a call whose address has its hash in
\* the session returns the stored location without calling the service; a
\* failed lookup returns nothing and leaves the session as it was; and no
\* call removes or replaces what the session holds, so the stored location
\* serves every later call with that address.
C13_SessionCache ==
    [][SiteCall
       => LET a == ComposeAddress(args'.tags)
              h == md5_hexdigest(a.site_address)
              composed == a.site_address # <<>> /\ a.show_google_map
              configured == GOOGLE_API_KEY # None /\ GOOGLE_API_KEY # Some(<<>>)
              answer == args'.geo_json
          IN  /\ exc' = "none"
              /\ ~configured
                 => ~args'.geocoded /\ ret' = None /\ session' = session
              /\ (configured /\ composed /\ \E item \in session : item.key = h)
                 => /\ ~args'.geocoded
                    /\ \E item \in session : item.key = h /\ ret' = Some(item.value)
                    /\ session' = session
              /\ (args'.geocoded /\ answer # None /\ answer[1].ok)
                 => /\ ret' = Some([latitude |-> answer[1].lat,
                                    longitude |-> answer[1].lng,
                                    site_id |-> args'.site_id])
                    /\ [key |-> h, value |-> ret'[1]] \in session'
              /\ (args'.geocoded /\ ~(answer # None /\ answer[1].ok))
                 => ret' = None /\ session' = session
              /\ session \subseteq session'
              /\ \A x, y \in session' : x.key = y.key => x = y
    ]_vars

\* A later call for another site with the address of an earlier successful
\* lookup: the service is not called and the earlier location comes back.
C13_Witness ==
    /\ pc = "returned" /\ op = "get_site_addr_loc"
    /\ ~args.geocoded
    /\ ret # None /\ ret[1].site_id # args.site_id
    /\ ret[1] = [latitude |-> 48, longitude |-> 2, site_id |-> "S1"]
    /\ ComposeAddress(args.tags).site_address = Elm

\* C14: in get_point_values the point's kind fixes the statement and the
\* decoding together.  Number: the aggregating statement, two columns, each
\* row returned as (truncated timestamp, aggregate of its group).  Bool: the
\* statement that also projects the aggregate, three columns, the only rows
\* whose third column is read.  Any other kind: the plain statement, one
\* two-column row (timestamp, string value) for each reading in the range,
\* nothing aggregated.  A two-column row is returned with its second column
\* as fetched, and decoding it raises nothing.
C14_KindFixesShapeAndDecoding ==
    (PointValuesEnded /\ statement # None /\ args.store_up)
    => LET kind == args.d.kind
           rows == FetchedRows
           n == Len(rows)
           R == {r \in volttron : /\ r.topic = args.d.topic
                                  /\ r.ts > range_start[1] /\ r.ts <= range_end[1]}
           bucket(r) == DATE_TRUNC(statement[1][2], r.ts)
       IN  /\ statement[1][1] = (IF kind = "Number" THEN "number"
                                 ELSE IF kind = "Bool" THEN "bool" ELSE "raw")
           /\ \A i \in 1..n : Len(rows[i]) = IF kind = "Bool" THEN 3 ELSE 2
           /\ kind # "Bool"
              => /\ exc = "none" /\ Len(ret[1]) = n
                 /\ \A i \in 1..n : ret[1][n + 1 - i][2] = rows[i][2]
           /\ kind = "Number"
              => /\ n = Cardinality({bucket(r) : r \in R})
                 /\ \A i \in 1..n :
                      /\ rows[i][1] \in {bucket(r) : r \in R}
                      /\ rows[i][2] = Aggregate(statement[1][3],
                                                {r \in R : bucket(r) = rows[i][1]})
           /\ kind \notin {"Number", "Bool"}
              => /\ n = Cardinality(R)
                 /\ \A i \in 1..n :
                      \E r \in R : rows[i] = <<r.ts, r.string_value>>
           /\ exc = "none"
              => \A i \in 1..n :
                   ret[1][n + 1 - i][1]
                   = IF args.ts_as_datetime THEN [utc_second |-> rows[i][1] \div Second]
                     ELSE rows[i][1]

\* A String point with two readings in one second: both come back, each with
\* its own string value, where a Number point would get one aggregated row.
C14_Witness ==
    /\ PointValuesEnded /\ exc = "none"
    /\ args.d.kind = "String" /\ args.date_trunc = "minute" /\ ~args.ts_as_datetime
    /\ statement = Some(<<"raw">>)
    /\ Len(ret[1]) = 2
    /\ ret[1][1][1] \div Second = ret[1][2][1] \div Second
    /\ ret[1][1][2] # ret[1][2][2]

====
